---- MODULE Spec2Model ----
(***************************************************************************)
(* Model of dev/decodetrace.py, the KBoot backtrace decoder.               *)
(*                                                                         *)
(* The script is a straight-line program: help check, argument /           *)
(* configuration handling, one read of standard input, then a loop over    *)
(* the lines that extracts an address, runs addr2line on it and prints the *)
(* decoded line.  Text is modelled as sequences of one-character strings   *)
(* so that startswith, strip, split and slicing are computed, not assumed. *)
(* The environment (the .options.cache file, standard input, whether the   *)
(* resolver program can be launched, its exit status and its output) is    *)
(* chosen nondeterministically at the point where the script consults it.  *)
(***************************************************************************)
EXTENDS Integers, Sequences, FiniteSets, TLC

\* ------------------------------------------------------------------ bounds
MaxArgs == 3      \* at most this many command-line arguments after argv[0]
MaxLines == 2     \* at most this many lines on standard input

\* ------------------------------------------------------- environment sets
ProgName == "decodetrace.py"
ArgSet == {"--help", "-h", "kboot.elf", "addr2line"}

RECURSIVE ArgTuples(_)
ArgTuples(n) ==
    IF n = 0 THEN {<<>>}
    ELSE {Append(t, a) : t \in ArgTuples(n - 1), a \in ArgSet}

ArgVectors == {<<ProgName>> \o t : t \in UNION {ArgTuples(n) : n \in 0..MaxArgs}}

\* What exec() of .options.cache can define, and the values it gives.
CacheValue == [CONFIG |-> "bios", CROSS_COMPILE |-> "i686-elf-"]
CacheNames == {"CONFIG", "CROSS_COMPILE"}
NoCache == [exists |-> FALSE, defs |-> [n \in {} |-> ""]]
CacheFiles ==
    {NoCache} \cup
    {[exists |-> TRUE, defs |-> [n \in D |-> CacheValue[n]]] : D \in SUBSET CacheNames}

\* Lines that can arrive on standard input, as readlines() returns them.
LineSet == {
    <<" ", "0", "x", "1", "\n">>,
    <<" ", "0", "x", "2", " ", "\n">>,
    <<" ", "0", "x", "1", " ", "(", "0", "x", "2", ")", "\n">>,
    <<" ", "0", "x", "1", " ", "(", "0", "x", "2", "\n">>,
    <<" ", "0", "x", "1", " ", "(", "2", ")", "\n">>,
    <<" ", "0", "x", "1", " ", "0", "x", "2", "\n">>,
    <<" ", "0", "x", "1", " ", "0", "x", "2", " ", "0", "x", "3", "\n">>,
    <<" ", "0", "x", "Z", "\n">>,
    <<"0", "x", "1", "\n">> }

RECURSIVE LineTuples(_)
LineTuples(n) ==
    IF n = 0 THEN {<<>>}
    ELSE {Append(t, l) : t \in LineTuples(n - 1), l \in LineSet}

Inputs == UNION {LineTuples(n) : n \in 0..MaxLines}

\* Bytes the resolver can write to its standard output.  InvalidByte is a
\* byte (0xff) that cannot occur in valid UTF-8.
InvalidByte == "<ff>"
StdoutSet == {
    <<>>,
    <<"f", "\n">>,
    <<"f", "\n", "l", "\n">>,
    <<"g", "\n", "m", "\n">>,
    <<InvalidByte, "\n", "l", "\n">> }
ReturnCodes == {0, 1}

\* ------------------------------------------------------------ text helpers
IsSpace(c) == c \in {" ", "\n", "\t"}

startswith(s, p) == Len(s) >= Len(p) /\ SubSeq(s, 1, Len(p)) = p

RECURSIVE lstrip(_)
lstrip(s) == IF s # <<>> /\ IsSpace(Head(s)) THEN lstrip(Tail(s)) ELSE s

RECURSIVE rstrip(_)
rstrip(s) ==
    IF s # <<>> /\ IsSpace(s[Len(s)]) THEN rstrip(SubSeq(s, 1, Len(s) - 1)) ELSE s

strip(s) == rstrip(lstrip(s))

\* str.split() with no separator: split on runs of whitespace, no empty tokens.
RECURSIVE splitws(_, _, _)
splitws(s, cur, acc) ==
    IF s = <<>> THEN (IF cur = <<>> THEN acc ELSE Append(acc, cur))
    ELSE IF IsSpace(Head(s))
         THEN splitws(Tail(s), <<>>, IF cur = <<>> THEN acc ELSE Append(acc, cur))
         ELSE splitws(Tail(s), Append(cur, Head(s)), acc)

split(s) == splitws(s, <<>>, <<>>)

\* str.split(sep) with a one-character separator: empty fields are kept.
RECURSIVE spliton(_, _, _, _)
spliton(s, sep, cur, acc) ==
    IF s = <<>> THEN Append(acc, cur)
    ELSE IF Head(s) = sep
         THEN spliton(Tail(s), sep, <<>>, Append(acc, cur))
         ELSE spliton(Tail(s), sep, Append(cur, Head(s)), acc)

splitnl(s) == spliton(s, "\n", <<>>, <<>>)

\* s[1:-1]
slice1m1(s) == SubSeq(s, 2, Len(s) - 1)

\* bytes.decode("utf-8"): fails on an invalid byte, otherwise the same text.
decodable(b) == \A i \in 1..Len(b) : b[i] # InvalidByte

\* ------------------------------------------------------------------ state
VARIABLES
    argv,         \* sys.argv
    pc,           \* position of the script
    cacheOpened,  \* open(".options.cache") has been attempted
    cacheFile,    \* what that open/exec found
    loader,       \* path of kboot.elf
    addr2line,    \* resolver program
    stdinRead,    \* sys.stdin.readlines() has been called
    lines,        \* its result
    idx,          \* number of lines the for loop has taken from lines
    addr,         \* address extracted from the current line
    process,      \* pid of the current Popen object (0: none yet)
    running,      \* pids of resolver processes launched and not yet reaped
    returncode,   \* process.returncode
    output,       \* decoded stdout of the resolver, split on newlines
    invocations,  \* every Popen call made so far, in order
    results,      \* exit status and raw stdout of every completed resolver
    printed,      \* decoded lines printed so far
    message,      \* usage / error message printed by argument handling
    error,        \* uncaught exception that ended the run, if any
    status        \* exit status (-1 while running)

vars == <<argv, pc, cacheOpened, cacheFile, loader, addr2line, stdinRead, lines,
          idx, addr, process, running, returncode, output, invocations,
          results, printed, message, error, status>>

config == <<cacheOpened, cacheFile, loader, addr2line>>
input == <<stdinRead, lines, idx, addr>>
resolver == <<process, running, returncode, output, invocations, results>>

Init ==
    /\ argv \in ArgVectors
    /\ pc = "start"
    /\ cacheOpened = FALSE
    /\ cacheFile = NoCache
    /\ loader = ""
    /\ addr2line = ""
    /\ stdinRead = FALSE
    /\ lines = <<>>
    /\ idx = 0
    /\ addr = <<>>
    /\ process = 0
    /\ running = {}
    /\ returncode = 0
    /\ output = <<>>
    /\ invocations = <<>>
    /\ results = <<>>
    /\ printed = <<>>
    /\ message = ""
    /\ error = ""
    /\ status = -1

\* sys.exit(code), or the interpreter ending on an uncaught exception (code 1).
Exit(code, exc) ==
    /\ pc' = "exited"
    /\ status' = code
    /\ error' = exc

\* ------------------------------------------------ lines 21-30: help flag
IsHelp_sole(a) == Len(a) = 2 /\ (a[2] = "--help" \/ a[2] = "-h")

\* len(sys.argv) > 1 and (sys.argv[1] == "--help" or sys.argv[1] == "-h")
IsHelp(a) == Len(a) > 1 /\ (a[2] = "--help" \/ a[2] = "-h")

Help ==
    /\ pc = "start"
    /\ IsHelp(argv)
    /\ message' = "Usage"
    /\ Exit(1, "")
    /\ UNCHANGED <<argv, config, input, resolver, printed>>

\* ------------------------------- lines 32-35: configuration from the cache
lookup_default(ns, name) ==
    [ok |-> TRUE, val |-> IF name \in DOMAIN ns THEN ns[name] ELSE ""]

\* Reading a global that exec() did or did not define; ok = FALSE is NameError.
lookup(ns, name) ==
    IF name \in DOMAIN ns THEN [ok |-> TRUE, val |-> ns[name]]
    ELSE [ok |-> FALSE, val |-> ""]

\* os.path.join('build', CONFIG, 'source', 'kboot.elf')
join(cfg) == "build/" \o cfg \o "/source/kboot.elf"

ConfigFromCache ==
    /\ pc = "start"
    /\ ~IsHelp(argv)
    /\ Len(argv) = 1
    /\ \E f \in CacheFiles :
        LET CONFIG == lookup(f.defs, "CONFIG")
            CROSS_COMPILE == lookup(f.defs, "CROSS_COMPILE")
        IN  /\ cacheOpened' = TRUE
            /\ cacheFile' = f
            /\ IF ~f.exists
               THEN Exit(1, "FileNotFoundError") /\ UNCHANGED <<loader, addr2line>>
               ELSE IF ~CONFIG.ok
               THEN Exit(1, "NameError") /\ UNCHANGED <<loader, addr2line>>
               ELSE IF ~CROSS_COMPILE.ok
               THEN /\ Exit(1, "NameError")
                    /\ loader' = join(CONFIG.val)
                    /\ UNCHANGED addr2line
               ELSE /\ loader' = join(CONFIG.val)
                    /\ addr2line' = CROSS_COMPILE.val \o "addr2line"
                    /\ pc' = "read"
                    /\ UNCHANGED <<status, error>>
    /\ UNCHANGED <<argv, input, resolver, printed, message>>

\* ------------------------------------- lines 36-41: explicit arguments
explicit_optional(a) ==
    IF Len(a) # 2 /\ Len(a) # 3 THEN [ok |-> FALSE, loader |-> "", addr2line |-> ""]
    ELSE [ok |-> TRUE, loader |-> a[2],
          addr2line |-> IF Len(a) = 3 THEN a[3] ELSE "addr2line"]

explicit(a) ==
    IF Len(a) # 3 THEN [ok |-> FALSE, loader |-> "", addr2line |-> ""]
    ELSE [ok |-> TRUE, loader |-> a[2], addr2line |-> a[3]]

InvalidArguments ==
    /\ pc = "start"
    /\ ~IsHelp(argv)
    /\ Len(argv) # 1
    /\ ~explicit(argv).ok
    /\ message' = "Invalid arguments"
    /\ Exit(1, "")
    /\ UNCHANGED <<argv, config, input, resolver, printed>>

ExplicitArguments ==
    /\ pc = "start"
    /\ ~IsHelp(argv)
    /\ Len(argv) # 1
    /\ explicit(argv).ok
    /\ loader' = explicit(argv).loader
    /\ addr2line' = explicit(argv).addr2line
    /\ pc' = "read"
    /\ UNCHANGED <<argv, cacheOpened, cacheFile, input, resolver, printed,
                   message, error, status>>

\* ------------------------------------------------- line 43: read the input
ReadInput ==
    /\ pc = "read"
    /\ \E text \in Inputs : lines' = text
    /\ stdinRead' = TRUE
    /\ pc' = "loop"
    /\ UNCHANGED <<argv, config, idx, addr, resolver, printed, message, error, status>>

\* ------------------------------------- lines 45-56: address extraction
NoAddr == [found |-> FALSE, addr |-> <<>>]

extract_any(raw) ==
    IF ~startswith(raw, <<" ", "0", "x">>) THEN NoAddr
    ELSE LET line == split(strip(raw))
         IN  IF Len(line) = 2
             THEN IF ~startswith(line[2], <<"(", "0", "x">>) THEN NoAddr
                  ELSE [found |-> TRUE, addr |-> slice1m1(line[2])]
             ELSE IF Len(line) >= 1
             THEN [found |-> TRUE, addr |-> line[1]]
             ELSE NoAddr

extract(raw) ==
    IF ~startswith(raw, <<" ", "0", "x">>) THEN NoAddr
    ELSE LET line == split(strip(raw))
         IN  IF Len(line) = 2
             THEN IF ~startswith(line[2], <<"(", "0", "x">>) THEN NoAddr
                  ELSE [found |-> TRUE, addr |-> slice1m1(line[2])]
             ELSE IF Len(line) = 1
             THEN [found |-> TRUE, addr |-> line[1]]
             ELSE NoAddr

\* for line in lines: take the next line and extract its address, or continue.
NextLine ==
    /\ pc = "loop"
    /\ idx < Len(lines)
    /\ idx' = idx + 1
    /\ LET e == extract(lines[idx + 1])
       IN  IF e.found
           THEN addr' = e.addr /\ pc' = "popen"
           ELSE UNCHANGED <<addr, pc>>
    /\ UNCHANGED <<argv, config, stdinRead, lines, resolver, printed, message,
                   error, status>>

\* The loop is exhausted: the script ends normally.
Finish ==
    /\ pc = "loop"
    /\ idx = Len(lines)
    /\ Exit(0, "")
    /\ UNCHANGED <<argv, config, input, resolver, printed, message>>

\* ------------------------------------------ line 58: launch the resolver
command == [program |-> addr2line, flags |-> <<"-f", "-e">>, loader |-> loader,
            addr |-> addr]

Popen_caught ==
    /\ pc = "popen"
    /\ invocations' = Append(invocations, command)
    /\ \E launched \in BOOLEAN :
        IF launched
        THEN /\ process' = Len(invocations) + 1
             /\ running' = running \cup {Len(invocations) + 1}
             /\ pc' = "communicate"
        ELSE /\ pc' = "loop"
             /\ UNCHANGED <<process, running>>
    /\ UNCHANGED <<argv, config, input, returncode, output, results, printed,
                   message, error, status>>

\* Popen([addr2line, '-f', '-e', loader, addr], ...): the program may be
\* missing or not executable, and then OSError is raised and nothing catches it.
Popen ==
    /\ pc = "popen"
    /\ invocations' = Append(invocations, command)
    /\ \E launched \in BOOLEAN :
        IF launched
        THEN /\ process' = Len(invocations) + 1
             /\ running' = running \cup {Len(invocations) + 1}
             /\ pc' = "communicate"
             /\ UNCHANGED <<error, status>>
        ELSE /\ Exit(1, "OSError")
             /\ UNCHANGED <<process, running>>
    /\ UNCHANGED <<argv, config, input, returncode, output, results, printed,
                   message>>

\* ------------------------------- line 59: wait for it and read its output
nowait(procs, pid) == procs

\* communicate() returns only after the child has terminated and been reaped.
wait(procs, pid) == procs \ {pid}

Communicate ==
    /\ pc = "communicate"
    /\ \E rc \in ReturnCodes, out \in StdoutSet :
        /\ running' = wait(running, process)
        /\ returncode' = rc
        /\ results' = Append(results, [addr |-> addr, returncode |-> rc, stdout |-> out])
        /\ IF decodable(out)
           THEN /\ output' = splitnl(out)
                /\ pc' = "emit"
                /\ UNCHANGED <<error, status>>
           ELSE /\ Exit(1, "UnicodeDecodeError")
                /\ UNCHANGED output
    /\ UNCHANGED <<argv, config, input, process, invocations, printed, message>>

\* ------------------------------------ lines 60-63: format the decoded line
\* '%s - %s @ %s' % (addr, name, location)
format(a, name, location) ==
    a \o <<" ", "-", " ">> \o name \o <<" ", "@", " ">> \o location

Emit ==
    /\ pc = "emit"
    /\ IF returncode # 0
       THEN pc' = "loop" /\ UNCHANGED <<printed, error, status>>
       ELSE IF Len(output) < 2
       THEN Exit(1, "IndexError") /\ UNCHANGED printed
       ELSE /\ printed' = Append(printed, format(addr, output[1], output[2]))
            /\ pc' = "loop"
            /\ UNCHANGED <<error, status>>
    /\ UNCHANGED <<argv, config, input, resolver, message>>

\* ------------------------------------------------------------ specification
Next ==
    \/ Help
    \/ ConfigFromCache
    \/ InvalidArguments
    \/ ExplicitArguments
    \/ ReadInput
    \/ NextLine
    \/ Finish
    \/ Popen
    \/ Communicate
    \/ Emit

Spec == Init /\ [][Next]_vars

\* ================================================================== claims
HelpFlags == {"--help", "-h"}
FirstIsHelp == Len(argv) >= 2 /\ argv[2] \in HelpFlags
tokens(raw) == split(strip(raw))
InFlightOrDone == pc \in {"communicate", "emit"}

\* ---------------------------------------------------------------------- C1
RECURSIVE ExpectedLines(_)
ExpectedLines(rs) ==
    IF rs = <<>> THEN <<>>
    ELSE LET r == Head(rs)
             o == splitnl(r.stdout)
             name == IF Len(o) >= 1 THEN o[1] ELSE <<>>
             location == IF Len(o) >= 2 THEN o[2] ELSE <<>>
         IN  (IF r.returncode = 0 THEN <<format(r.addr, name, location)>> ELSE <<>>)
             \o ExpectedLines(Tail(rs))

\* C1: when the run has ended after reading its input, the decoded output is
\* exactly one line "<address> - <function name> @ <location>" for every
\* resolver invocation that exited with status zero, in input order, and no
\* line for the invocations that exited non-zero.
C1_DecodedOutput ==
    (pc = "exited" /\ stdinRead) => printed = ExpectedLines(results)

\* ---------------------------------------------------------------------- C2
\* C2 as stated: a single argument that is not a help flag is accepted, the
\* resolver defaults to the bare program name and no usage error is printed.
C2_OneArgumentAccepted ==
    (Len(argv) = 2 /\ ~FirstIsHelp /\ pc # "start")
        => (message = "" /\ addr2line = "addr2line" /\ loader = argv[2])

\* C2 amended: exactly two arguments (artifact path, not a help flag, and
\* resolver path) are accepted, the resolver being the second argument, and
\* standard input is then read with no usage error; a single non-help
\* argument is rejected with "Invalid arguments" and status 1 before
\* standard input is read.
C2_TwoArgumentsAccepted ==
    /\ (Len(argv) = 3 /\ ~FirstIsHelp /\ pc # "start")
          => /\ message = ""
             /\ loader = argv[2]
             /\ addr2line = argv[3]
             /\ ~cacheOpened
             /\ (pc # "read" => stdinRead)
    /\ (Len(argv) = 2 /\ ~FirstIsHelp /\ pc # "start")
          => /\ pc = "exited"
             /\ status = 1
             /\ message = "Invalid arguments"
             /\ ~stdinRead

C2_Witness ==
    /\ Len(argv) = 3
    /\ ~FirstIsHelp
    /\ argv[3] = "addr2line"
    /\ pc = "exited"
    /\ status = 0
    /\ printed # <<>>

\* ---------------------------------------------------------------------- C3
\* C3: if the first argument is -h or --help (whatever follows), or the
\* number of arguments is neither zero nor two, the run prints its message
\* and exits with status 1, and it never opens the configuration cache,
\* reads standard input, invokes the resolver or prints a decoded line.
C3_UsageExitsBeforeProcessing ==
    (FirstIsHelp \/ Len(argv) \notin {1, 3})
        => /\ ~cacheOpened
           /\ ~stdinRead
           /\ invocations = <<>>
           /\ running = {}
           /\ printed = <<>>
           /\ (pc # "start" =>
                 /\ pc = "exited"
                 /\ status = 1
                 /\ message = (IF FirstIsHelp THEN "Usage" ELSE "Invalid arguments"))

C3_Witness ==
    /\ Len(argv) = 3
    /\ argv[2] = "-h"
    /\ argv[3] = "addr2line"
    /\ pc = "exited"
    /\ message = "Usage"

\* ---------------------------------------------------------------------- C4
CacheIncomplete ==
    \/ ~cacheFile.exists
    \/ "CONFIG" \notin DOMAIN cacheFile.defs
    \/ "CROSS_COMPILE" \notin DOMAIN cacheFile.defs

\* C4: in the no-argument form, once the cache has been consulted and it is
\* absent or lacks CONFIG or CROSS_COMPILE, the run has terminated with a
\* non-zero status, standard input has not been read, and there is no
\* resolver invocation and no decoded line.
C4_ConfigErrorBeforeRead ==
    (Len(argv) = 1 /\ cacheOpened /\ CacheIncomplete)
        => /\ pc = "exited"
           /\ status > 0
           /\ ~stdinRead
           /\ invocations = <<>>
           /\ printed = <<>>

C4_Witness ==
    /\ Len(argv) = 1
    /\ cacheOpened
    /\ cacheFile.exists
    /\ DOMAIN cacheFile.defs = {"CONFIG"}
    /\ pc = "exited"
    /\ error = "NameError"

\* ---------------------------------------------------------------------- C5
Discardable(raw) ==
    \/ ~startswith(raw, <<" ", "0", "x">>)
    \/ Len(split(raw)) >= 3

\* C5: when the loop takes a line that does not begin with " 0x", or that
\* begins with it but splits into three or more tokens, that step invokes no
\* resolver, prints nothing, does not end the run and leaves the loop ready
\* for the next line; and no resolver is ever running for such a line.
C5_DiscardedLines ==
    /\ [](InFlightOrDone => ~Discardable(lines[idx]))
    /\ [][(idx' = idx + 1 /\ Discardable(lines'[idx']))
            => (pc' = "loop" /\ UNCHANGED <<invocations, running, results, printed,
                                           status, error>>)]_vars

C5_Witness ==
    /\ idx = 2
    /\ startswith(lines[1], <<" ", "0", "x">>)
    /\ Len(split(lines[1])) >= 3
    /\ invocations # <<>>
    /\ Len(printed) = 1

\* ---------------------------------------------------------------------- C6
Wrapped(t) == Len(t) >= 2 /\ t[1] = "(" /\ t[Len(t)] = ")"

\* C6: whenever the resolver has been launched for a line with exactly two
\* tokens, the second token is wrapped in parentheses and the address is that
\* token without its leading "(" and trailing ")"; a two-token line whose
\* second token is not wrapped never reaches the resolver.
C6_ParenthesisedOnly ==
    (InFlightOrDone /\ Len(tokens(lines[idx])) = 2)
        => LET t == tokens(lines[idx])[2]
           IN  Wrapped(t) /\ addr = SubSeq(t, 2, Len(t) - 1)

\* ---------------------------------------------------------------------- C7
HexDigits == {"0", "1", "2", "3", "4", "5", "6", "7", "8", "9",
              "a", "b", "c", "d", "e", "f", "A", "B", "C", "D", "E", "F"}
IsHexLiteral(a) ==
    /\ Len(a) >= 3
    /\ a[1] = "0"
    /\ a[2] = "x"
    /\ \A i \in 3..Len(a) : a[i] \in HexDigits

\* C7: every address handed to the resolver is "0x" followed by one or more
\* hexadecimal digits.
C7_HexLiteralAddresses ==
    \A i \in 1..Len(invocations) : IsHexLiteral(invocations[i].addr)

\* ---------------------------------------------------------------------- C8
\* C8: once standard input has been read, a run that ends for any reason
\* other than a failure to launch the resolver has processed every line and
\* exits with status 0.
C8_NoPerAddressTermination ==
    (pc = "exited" /\ stdinRead /\ error # "OSError")
        => (status = 0 /\ idx = Len(lines))

\* ---------------------------------------------------------------------- C9
RECURSIVE ExtractedAddrs(_)
ExtractedAddrs(ls) ==
    IF ls = <<>> THEN <<>>
    ELSE LET e == extract(Head(ls))
         IN  (IF e.found THEN <<e.addr>> ELSE <<>>) \o ExtractedAddrs(Tail(ls))

InvokedAddrs == [i \in 1..Len(invocations) |-> invocations[i].addr]

\* C9: the resolver invocations made so far are, in order, exactly one per
\* address extracted from the lines taken so far (the current one excepted
\* while its launch is still pending), each with the configured program and
\* artifact; at most one resolver is running, only while the script waits for
\* it, and whenever the loop is about to take a line every resolver launched
\* has terminated and its output has been consumed.
C9_SequentialInvocations ==
    /\ InvokedAddrs \o (IF pc = "popen" THEN <<addr>> ELSE <<>>)
         = ExtractedAddrs(SubSeq(lines, 1, idx))
    /\ \A i \in 1..Len(invocations) :
         /\ invocations[i].program = addr2line
         /\ invocations[i].loader = loader
    /\ Cardinality(running) <= 1
    /\ (running # {} => pc = "communicate")
    /\ (pc = "communicate" => running = {Len(invocations)})
    /\ (pc = "loop" => running = {} /\ Len(results) = Len(invocations))

C9_Witness ==
    /\ pc = "exited"
    /\ status = 0
    /\ Len(invocations) = 2
    /\ invocations[1].addr = invocations[2].addr
    /\ Len(results) = 2
    /\ Len(printed) = 2

\* --------------------------------------------------------------------- C10
\* An invocation that is neither running nor completed failed to launch.
LaunchFailed == Len(invocations) > Len(results) + Cardinality(running)

\* C10: once a launch of the resolver has failed the run has exited with a
\* non-zero status and takes no further step (no later line, no further
\* invocation, no further output); the failing step itself prints nothing
\* and leaves the lines printed for earlier addresses in place.
C10_LaunchFailureFatal ==
    /\ [](LaunchFailed => (pc = "exited" /\ status > 0
                              /\ Len(invocations) = Len(results) + 1))
    /\ [][~LaunchFailed]_vars
    /\ [][LaunchFailed' => (printed' = printed /\ idx' = idx)]_vars

C10_Witness ==
    /\ LaunchFailed
    /\ pc = "exited"
    /\ idx < Len(lines)
    /\ extract(lines[idx + 1]).found

====
